---- MODULE Spec2Model ----
(***************************************************************************)
(* p5.js, src/image/image.js: saveFrames (a timed capture session driven   *)
(* by setInterval / setTimeout), _makeFrame, and encodeAndDownloadGif.     *)
(*                                                                         *)
(* JavaScript runs the handlers one at a time, each to completion, so each *)
(* call and each timer callback is one action.                             *)
(***************************************************************************)
EXTENDS Integers, Sequences, FiniteSets, TLC

(***************************************************************************)
(* Bounds of the model.                                                    *)
(***************************************************************************)
MaxTicks == 2      \* interval callbacks per session when timers may be late
MaxPicture == 1    \* canvas pictures 0..MaxPicture when timers may be late
MaxGifFrames == 3  \* frames of the image handed to encodeAndDownloadGif

\* Two saveFrames calls: the fewest whose sessions can overlap.
Sessions == {1, 2}
Pictures == 0..MaxPicture

(***************************************************************************)
(* JavaScript values of the numeric arguments: a number or undefined (the  *)
(* argument was omitted).                                                  *)
(***************************************************************************)
Undefined == <<"undefined">>
Num(n) == <<"number", n>>

\* ToBoolean of a numeric argument: undefined and 0 are falsy.
Falsy(v) == v[1] = "undefined" \/ v[2] = 0

\* Mutant of OrDefault: `v ?? d`, the default only for an omitted argument.
OrNullish(v, d) == IF v[1] = "undefined" THEN d ELSE v[2]

\* `v || d` for a numeric argument v and a default d.
OrDefault(v, d) == IF Falsy(v) THEN d ELSE v[2]

\* p5.prototype.constrain(n, low, high): Math.max(Math.min(n, high), low).
constrain(n, low, high) ==
  LET m == IF n < high THEN n ELSE high
  IN  IF m > low THEN m ELSE low

(***************************************************************************)
(* Times are exact rationals <<numerator, denominator>> in milliseconds;   *)
(* a zero denominator is JavaScript's Infinity (1000 / 0).                 *)
(***************************************************************************)
Leq(a, b) == a[1] * b[2] <= b[1] * a[2]

\* The interval's period, 1000 / fps (line 285).
Period(fps_) == <<1000, fps_>>

\* The instant of the k-th interval callback on an ideal clock: k * (1000 / fps).
TickTime(k, fps_) == <<k * Period(fps_)[1], Period(fps_)[2]>>

\* Mutant of CutoffTime: the timeout is set to duration, without the 0.01.
CutoffTimeNoEpsilon(duration_) == <<duration_ * 100, 100>>

\* The instant of the timeout on an ideal clock: duration + 0.01 (line 297).
CutoffTime(duration_) == <<duration_ * 100 + 1, 100>>

\* The picture on the canvas at instant t of an animation that never repeats:
\* the instant itself, in whole microseconds.
CanvasAt(t) == (t[1] * 1000) \div t[2]

(***************************************************************************)
(* _makeFrame(filename, extension, _cnv), called as a plain function, so   *)
(* `this` is undefined and the canvas is _cnv.  `picture` is what the      *)
(* canvas shows when toDataURL reads it.                                   *)
(***************************************************************************)
toLowerCase(str) ==
  CASE str = "JPG" -> "jpg"
    [] str = "JPEG" -> "jpeg"
    [] str = "PNG" -> "png"
    [] OTHER -> str

MimeOf(extension) ==
  IF extension = "" THEN "image/png"
  ELSE LET e == toLowerCase(extension)
       IN  CASE e = "png" -> "image/png"
             [] e = "jpeg" -> "image/jpeg"
             [] e = "jpg" -> "image/jpeg"
             [] OTHER -> "image/png"

\* cnv.toDataURL(mimeType): a data URL of the picture, "data:<mime>;base64,<body>".
toDataURL(picture, mimeType) == [mime |-> mimeType, encodedAs |-> mimeType, picture |-> picture]

\* imageData.replace(mimeType, downloadMime): only the URL's media type changes.
replaceMime(url, downloadMime) == [url EXCEPT !.mime = downloadMime]

_makeFrame(filename, extension, picture) ==
  [imageData |-> replaceMime(toDataURL(picture, MimeOf(extension)), "image/octet-stream"),
   filename  |-> filename,
   ext       |-> IF extension = "" THEN "png" ELSE extension]

(***************************************************************************)
(* State.  Each saveFrames call s owns the variables of its closure.       *)
(***************************************************************************)
VARIABLES
  pc,            \* pc[s]: "idle" (not called), "running", "done" (timeout ran)
  args,          \* args[s]: the arguments of call s
  duration,      \* duration[s]: the closure's duration, in ms
  fps,           \* fps[s]: the closure's fps
  count,         \* count[s]: the closure's count
  arrays,        \* arrays[s]: the array objects call s has created, by reference
  frames,        \* frames[s]: the array the closure's `frames` refers to
  frameFactory,  \* frameFactory[s]: the interval timer is registered
  cutoff,        \* cutoff[s]: the timeout is pending
  ticks,         \* ticks[s]: interval callbacks run so far
  captured,      \* captured[s]: history of the frames pushed by call s
  failures,      \* failures[s]: the ticks (by number) on which makeFrame threw
  callbackCalls, \* callbackCalls[s]: the calls of the callback, in order
  downloads,     \* the calls of p5.prototype.downloadFile, in order
  gifPc,         \* encodeAndDownloadGif: "idle", "loop", "done", "threw"
  globals,       \* the global width and height the call sees: <<>> or <<w, h>>
  gifFrames,     \* pImg.gifProperties.frames
  gifFilename,   \* the filename argument
  i,             \* the loop's i
  gif,           \* the encoder: its state and the frames written into it
  gifError,      \* the exception that left the call, "" when none
  gifLog         \* the calls made on the encoder and the collaborators, in order

sessionVars == <<pc, args, duration, fps, count, arrays, frames, frameFactory,
                 cutoff, ticks, captured, failures, callbackCalls>>
gifVars == <<gifPc, globals, gifFrames, gifFilename, i, gif, gifError, gifLog>>
vars == <<sessionVars, gifVars, downloads>>

NoArgs == [fName |-> "", ext |-> "", _duration |-> Undefined, _fps |-> Undefined,
           callback |-> FALSE]

Init ==
  /\ pc = [s \in Sessions |-> "idle"]
  /\ args = [s \in Sessions |-> NoArgs]
  /\ duration = [s \in Sessions |-> 0]
  /\ fps = [s \in Sessions |-> 0]
  /\ count = [s \in Sessions |-> 0]
  /\ arrays = [s \in Sessions |-> <<>>]
  /\ frames = [s \in Sessions |-> 0]
  /\ frameFactory = [s \in Sessions |-> FALSE]
  /\ cutoff = [s \in Sessions |-> FALSE]
  /\ ticks = [s \in Sessions |-> 0]
  /\ captured = [s \in Sessions |-> <<>>]
  /\ failures = [s \in Sessions |-> <<>>]
  /\ callbackCalls = [s \in Sessions |-> <<>>]
  /\ downloads = <<>>
  /\ gifPc = "idle"
  /\ globals = <<>>
  /\ gifFrames = <<>>
  /\ gifFilename = ""
  /\ i = 0
  /\ gif = [state |-> "none", written |-> <<>>]
  /\ gifError = ""
  /\ gifLog = <<>>

\* The array the closure's `frames` refers to.
Buffer(s) == arrays[s][frames[s]]

(***************************************************************************)
(* saveFrames(fName, ext, _duration, _fps, callback), lines 270-298.       *)
(***************************************************************************)
ClampedDuration(_duration) == constrain(OrDefault(_duration, 3), 0, 15) * 1000

\* Mutant of ClampedFps: the fps is used as given, never constrained.
UnclampedFps(_fps) == OrDefault(_fps, 15)

ClampedFps(_fps) == constrain(OrDefault(_fps, 15), 0, 22)

saveFrames(s, fName, ext, _duration, _fps, callback) ==
  /\ pc[s] = "idle"
  /\ pc' = [pc EXCEPT ![s] = "running"]
  /\ args' = [args EXCEPT ![s] = [fName |-> fName, ext |-> ext, _duration |-> _duration,
                                  _fps |-> _fps, callback |-> callback]]
  /\ duration' = [duration EXCEPT ![s] = ClampedDuration(_duration)]
  /\ fps' = [fps EXCEPT ![s] = ClampedFps(_fps)]
  /\ count' = [count EXCEPT ![s] = 0]
  /\ arrays' = [arrays EXCEPT ![s] = << <<>> >>]
  /\ frames' = [frames EXCEPT ![s] = 1]
  /\ frameFactory' = [frameFactory EXCEPT ![s] = TRUE]
  /\ cutoff' = [cutoff EXCEPT ![s] = TRUE]
  /\ UNCHANGED <<ticks, captured, failures, callbackCalls, downloads, gifVars>>

(***************************************************************************)
(* The interval callback, lines 282-285; `picture` is on the canvas.       *)
(***************************************************************************)
\* Mutant of Increment: the counter is never advanced.
NoIncrement(c) == c

\* count++ (line 284)
Increment(c) == c + 1

\* Mutant of CounterOf: count is one variable of the module, shared by the calls.
SharedCounter(s) == 1

\* The call whose `count` the callbacks of call s use: `let count` (line 277) is
\* a local of the call, so its own.
CounterOf(s) == s

frameFactoryTick(s, picture) ==
  /\ frameFactory[s]
  /\ LET f == _makeFrame(args[s].fName \o ToString(count[CounterOf(s)]), args[s].ext,
                         picture)
     IN  /\ arrays' = [arrays EXCEPT ![s][frames[s]] = Append(@, f)]
         /\ captured' = [captured EXCEPT ![s] = Append(@, f)]
  /\ count' = [count EXCEPT ![CounterOf(s)] = Increment(@)]
  /\ ticks' = [ticks EXCEPT ![s] = @ + 1]
  /\ UNCHANGED <<pc, args, duration, fps, frames, frameFactory, cutoff, failures,
                 callbackCalls, downloads, gifVars>>

\* Mutant of tickCounters: the counter is advanced while the file name is built
\* (fName + count++), before makeFrame is called.
tickCountersEarly(counters, s) == [counters EXCEPT ![s] = Increment(@)]

\* The counters after a tick on which makeFrame threw: the exception leaves the
\* callback before frames.push and count++ run.
tickCounters(counters, s) == counters

\* The interval callback when makeFrame throws (toDataURL fails): the exception
\* leaves the callback; the interval stays registered.
frameFactoryTickThrows(s) ==
  /\ frameFactory[s]
  /\ ticks' = [ticks EXCEPT ![s] = @ + 1]
  /\ failures' = [failures EXCEPT ![s] = Append(@, ticks[s] + 1)]
  /\ count' = tickCounters(count, s)
  /\ UNCHANGED <<pc, args, duration, fps, arrays, frames, frameFactory, cutoff,
                 captured, callbackCalls, downloads, gifVars>>

(***************************************************************************)
(* The timeout callback, lines 287-297.                                    *)
(***************************************************************************)
\* Mutant of DownloadEach: the array is walked from its end.
DownloadEachReversed(s, array) ==
  [k \in 1..Len(array) |->
     [by |-> <<"saveFrames", s>>, data |-> array[Len(array) + 1 - k].imageData,
      filename |-> array[Len(array) + 1 - k].filename, ext |-> array[Len(array) + 1 - k].ext]]

\* downloadFile(f.imageData, f.filename, f.ext) for each f of the array, in order.
DownloadEach(s, array) ==
  [k \in 1..Len(array) |-> [by |-> <<"saveFrames", s>>, data |-> array[k].imageData,
                            filename |-> array[k].filename, ext |-> array[k].ext]]

\* Mutant of clearInterval: the interval is left registered.
keepInterval(registered) == registered

\* clearInterval(frameFactory): whether the interval stays registered.
clearInterval(registered) == FALSE

\* Mutant of clearFrames: the array is emptied in place (frames.length = 0).
truncateFrames(heap, ref) == [heap |-> [heap EXCEPT ![ref] = <<>>], ref |-> ref]

\* frames = [] (line 296): a new empty array is created and `frames` refers to it.
clearFrames(heap, ref) == [heap |-> Append(heap, <<>>), ref |-> Len(heap) + 1]

\* Mutant of timeoutRan: the cutoff is set with setInterval and stays pending.
timeoutRepeats(pending) == pending

\* setTimeout (line 287) runs its callback once: whether it is pending afterwards.
timeoutRan(pending) == FALSE

cutoffTimeout(s) ==
  /\ cutoff[s]
  /\ cutoff' = [cutoff EXCEPT ![s] = timeoutRan(@)]
  /\ frameFactory' = [frameFactory EXCEPT ![s] = clearInterval(@)]
  /\ IF args[s].callback
       THEN /\ callbackCalls' = [callbackCalls EXCEPT ![s] =
                                   Append(@, [array |-> frames[s], seen |-> Buffer(s)])]
            /\ UNCHANGED downloads
       ELSE /\ downloads' = downloads \o DownloadEach(s, Buffer(s))
            /\ UNCHANGED callbackCalls
  /\ arrays' = [arrays EXCEPT ![s] = clearFrames(arrays[s], frames[s]).heap]
  /\ frames' = [frames EXCEPT ![s] = clearFrames(arrays[s], frames[s]).ref]
  /\ pc' = [pc EXCEPT ![s] = "done"]
  /\ UNCHANGED <<args, duration, fps, count, ticks, captured, failures, gifVars>>

(***************************************************************************)
(* Spec: timers may run late, so the callbacks of the live timers run in   *)
(* any order.                                                              *)
(***************************************************************************)
FNames == {"out"}
ExtArgs == {"", "JPG"}
LateExtArgs == {"JPG"}
LateDurationArgs == {Num(2)}
LateFpsArgs == {Num(10)}

Call(s) ==
  /\ pc[s] = "idle"
  /\ \E fName \in FNames, ext \in LateExtArgs, _duration \in LateDurationArgs,
        _fps \in LateFpsArgs, callback \in BOOLEAN :
          saveFrames(s, fName, ext, _duration, _fps, callback)

Tick(s) ==
  /\ ticks[s] < MaxTicks
  /\ \E picture \in Pictures : frameFactoryTick(s, picture)

TickThrows(s) ==
  /\ ticks[s] < MaxTicks
  /\ frameFactoryTickThrows(s)

Cutoff(s) == cutoffTimeout(s)

Next == \E s \in Sessions : Call(s) \/ Tick(s) \/ TickThrows(s) \/ Cutoff(s)

Spec == Init /\ [][Next]_vars

(***************************************************************************)
(* SpecFair: Spec with the timers' guarantee that a pending timeout is run: *)
(* the event loop does not leave a due timer callback waiting for ever.     *)
(***************************************************************************)
SpecFair == Init /\ [][Next]_vars /\ \A s \in Sessions : WF_vars(Cutoff(s))

(***************************************************************************)
(* SpecExact: one session on an ideal clock.  Every timer callback runs at *)
(* the instant it is due, so the callbacks run in the order of their due   *)
(* times: tick k at k * (1000 / fps), the timeout at duration + 0.01; the  *)
(* canvas can always be read.                                              *)
(***************************************************************************)
DurationArgs == {Undefined, Num(-1), Num(0), Num(2), Num(15), Num(30)}
FpsArgs == {Undefined, Num(-1), Num(0), Num(10), Num(22), Num(100)}

CallExact(s) ==
  /\ \A r \in Sessions : pc[r] = "idle"
  /\ \E fName \in FNames, ext \in ExtArgs, _duration \in DurationArgs,
        _fps \in FpsArgs, callback \in BOOLEAN :
          saveFrames(s, fName, ext, _duration, _fps, callback)

\* The next interval callback is due no later than the timeout.
TickIsNext(s) == Leq(TickTime(ticks[s] + 1, fps[s]), CutoffTime(duration[s]))

\* The timeout is due no later than the next interval callback.
CutoffIsNext(s) == Leq(CutoffTime(duration[s]), TickTime(ticks[s] + 1, fps[s]))

TickExact(s) ==
  /\ cutoff[s] => TickIsNext(s)
  /\ frameFactoryTick(s, CanvasAt(TickTime(ticks[s] + 1, fps[s])))

CutoffExact(s) ==
  /\ frameFactory[s] => CutoffIsNext(s)
  /\ cutoffTimeout(s)

NextExact == \E s \in Sessions : CallExact(s) \/ TickExact(s) \/ CutoffExact(s)

SpecExact == Init /\ [][NextExact]_vars

(***************************************************************************)
(* encodeAndDownloadGif(pImg, filename), lines 188-226.  GIFEncoder,       *)
(* quantize and applyPalette are gifenc's; each may throw.                 *)
(***************************************************************************)
\* quantize(data, 256, { format, clearAlpha: false })
quantize(data, maxColors, format) ==
  [paletteOf |-> data, maxColors |-> maxColors, format |-> format]

\* applyPalette(data, palette, format)
applyPalette(data, palette, format) ==
  [indexOf |-> data, palette |-> palette, format |-> format]

\* GIFEncoder()
GIFEncoder == [state |-> "open", written |-> <<>>]

\* gif.writeFrame(index, width, height, { palette, delay })
writeFrame(encoder, index, width, height, palette, delay) ==
  [encoder EXCEPT !.written = Append(@, [index |-> index, width |-> width, height |-> height,
                                         palette |-> palette, delay |-> delay])]

\* gif.finish()
finish(encoder) == [encoder EXCEPT !.state = "finished"]

\* gif.bytesView(): the stream so far.
bytesView(encoder) == [frames |-> encoder.written, trailer |-> encoder.state = "finished"]

\* new Blob([buffer], { type: 'image/gif' })
Blob(buffer) == [parts |-> <<buffer>>, type |-> "image/gif"]

\* Mutant of FrameAt: the loop reads the frames from the last to the first.
FrameAtReversed(frames_, i_) == frames_[Len(frames_) - i_]

\* The frame the loop reads in iteration i (0-based), frames[i].
FrameAt(frames_, i_) == frames_[i_ + 1]

\* Lines 188-192: the call, up to the loop.
gifBegin(pImg, filename, env) ==
  /\ gifPc = "idle"
  /\ gifPc' = "loop"
  /\ globals' = env
  /\ gifFrames' = pImg.gifProperties.frames
  /\ gifFilename' = filename
  /\ gif' = GIFEncoder
  /\ i' = 0
  /\ gifLog' = <<"GIFEncoder">>
  /\ UNCHANGED <<gifError, downloads, sessionVars>>

\* Mutant of Throw: the exception is caught in the loop and the frame skipped.
Swallow(error, log) ==
  /\ gifError' = error
  /\ gifLog' = log
  /\ i' = i + 1
  /\ UNCHANGED <<gifPc, globals, gifFrames, gifFilename, gif, downloads, sessionVars>>

\* The exception leaves the call: nothing after the throwing call runs.
Throw(error, log) ==
  /\ gifPc' = "threw"
  /\ gifError' = error
  /\ gifLog' = log
  /\ UNCHANGED <<globals, gifFrames, gifFilename, i, gif, downloads, sessionVars>>

\* Lines 195-214: one iteration of the loop; `thrower` is the call that throws.
gifLoopBody(thrower) ==
  /\ gifPc = "loop"
  /\ i < Len(gifFrames)
  /\ LET data == FrameAt(gifFrames, i).image.data
         format == "rgba4444"
         palette == quantize(data, 256, format)
         index == applyPalette(data, palette, format)
     IN  CASE thrower = "quantize" -> Throw("quantize", Append(gifLog, "quantize"))
           [] thrower = "applyPalette" ->
                Throw("applyPalette", gifLog \o <<"quantize", "applyPalette">>)
           [] globals = <<>> ->
                \* `width` is no variable of the module nor a global
                Throw("ReferenceError", gifLog \o <<"quantize", "applyPalette">>)
           [] thrower = "writeFrame" ->
                Throw("writeFrame", gifLog \o <<"quantize", "applyPalette", "writeFrame">>)
           [] OTHER ->
                /\ gif' = writeFrame(gif, index, globals[1], globals[2], palette,
                                     FrameAt(gifFrames, i).delay)
                /\ i' = i + 1
                /\ gifLog' = gifLog \o <<"quantize", "applyPalette", "writeFrame">>
                /\ UNCHANGED <<gifPc, globals, gifFrames, gifFilename, gifError,
                               downloads, sessionVars>>

\* Mutant of gifEnd: gif.finish() is left out.
gifEndUnfinished ==
  /\ gifPc = "loop"
  /\ ~(i < Len(gifFrames))
  /\ downloads' = Append(downloads, [by |-> <<"encodeAndDownloadGif", 0>>,
                                      data |-> Blob(bytesView(gif)),
                                      filename |-> gifFilename, ext |-> "gif"])
  /\ gifLog' = gifLog \o <<"bytesView", "downloadFile">>
  /\ gifPc' = "done"
  /\ UNCHANGED <<globals, gifFrames, gifFilename, i, gif, gifError, sessionVars>>

\* Lines 216-225: after the loop.
gifEnd ==
  /\ gifPc = "loop"
  /\ ~(i < Len(gifFrames))
  /\ gif' = finish(gif)
  /\ downloads' = Append(downloads, [by |-> <<"encodeAndDownloadGif", 0>>,
                                      data |-> Blob(bytesView(finish(gif))),
                                      filename |-> gifFilename, ext |-> "gif"])
  /\ gifLog' = gifLog \o <<"finish", "bytesView", "downloadFile">>
  /\ gifPc' = "done"
  /\ UNCHANGED <<globals, gifFrames, gifFilename, i, gifError, sessionVars>>

(***************************************************************************)
(* SpecGif: one call of encodeAndDownloadGif.                              *)
(***************************************************************************)
PixelData == {"A", "B"}
Dimensions == {<<2, 2>>, <<3, 2>>}
Delays == {10, 20, 30}
Throwers == {"none", "quantize", "applyPalette", "writeFrame"}

GifFrame == [image : [data : PixelData, width : {d[1] : d \in Dimensions},
                      height : {d[2] : d \in Dimensions}],
             delay : Delays]

GifInputs == UNION {[1..n -> GifFrame] : n \in 0..MaxGifFrames}

GifCall ==
  /\ gifPc = "idle"
  /\ \E fs \in GifInputs, env \in {<<>>} \cup Dimensions :
       gifBegin([gifProperties |-> [frames |-> fs]], "anim", env)

GifStep == \E thrower \in Throwers : gifLoopBody(thrower)

GifEnd == gifEnd

NextGif == GifCall \/ GifStep \/ GifEnd

SpecGif == Init /\ [][NextGif]_vars

(***************************************************************************)
(* Properties of saveFrames.                                               *)
(***************************************************************************)
Started(s) == pc[s] # "idle"

\* The downloadFile calls made by session s, as frames.
DownloadedBy(s) ==
  LET mine == SelectSeq(downloads, LAMBDA d : d.by = <<"saveFrames", s>>)
  IN  [k \in 1..Len(mine) |-> [imageData |-> mine[k].data, filename |-> mine[k].filename,
                                ext |-> mine[k].ext]]

\* The frames session s handed to its continuation: the array the callback was
\* called with, or the frames passed to downloadFile.
Handed(s) ==
  IF args[s].callback
    THEN IF callbackCalls[s] = <<>> THEN <<>> ELSE callbackCalls[s][1].seen
    ELSE DownloadedBy(s)

\* n clamped to [low, high], written out.
Clamp(n, low, high) == IF n < low THEN low ELSE IF n > high THEN high ELSE n

\* The frames of the first n ticks of a session on an ideal clock.
IdealFrames(fName, ext, fps_, n) ==
  [k \in 1..n |-> [imageData |-> [mime |-> "image/octet-stream", encodedAs |-> MimeOf(ext),
                                   picture |-> (k * 1000000) \div fps_],
                    filename |-> fName \o ToString(k - 1),
                    ext |-> IF ext = "" THEN "png" ELSE ext]]

C3_NoTickAfterCutoff ==
  [][\A s \in Sessions : pc[s] = "done" =>
        /\ count'[s] = count[s]
        /\ ticks'[s] = ticks[s]
        /\ captured'[s] = captured[s]
        /\ arrays'[s] = arrays[s]]_vars

\* C3 witness: a session has ended with frames captured and ticks to spare,
\* while the other session is still running.
C3_Witness ==
  \E s \in Sessions, r \in Sessions :
    /\ pc[s] = "done" /\ Len(captured[s]) >= 1 /\ ticks[s] < MaxTicks
    /\ pc[r] = "running" /\ ticks[r] >= 1

\* C4: the timeout hands the whole buffer, in capture order, to exactly one
\* continuation: with a callback, one call with an array of all the captured
\* frames and no download; without, one downloadFile call per frame, in buffer
\* order, with the frame's imageData, filename and ext.  Nothing is handed over
\* before the timeout.
C4_OneContinuation ==
  \A s \in Sessions :
    /\ pc[s] # "done" => callbackCalls[s] = <<>> /\ DownloadedBy(s) = <<>>
    /\ (pc[s] = "done" /\ args[s].callback) =>
          /\ Len(callbackCalls[s]) = 1
          /\ callbackCalls[s][1].seen = captured[s]
          /\ Len(callbackCalls[s][1].seen) = count[s]
          /\ DownloadedBy(s) = <<>>
    /\ (pc[s] = "done" /\ ~args[s].callback) =>
          /\ callbackCalls[s] = <<>>
          /\ DownloadedBy(s) = captured[s]

\* C4 witness: one session has downloaded its two frames, the other has passed
\* its two frames to its callback.
C4_Witness ==
  \E s \in Sessions, r \in Sessions :
    /\ pc[s] = "done" /\ ~args[s].callback /\ Len(DownloadedBy(s)) = 2
    /\ DownloadedBy(s)[1] # DownloadedBy(s)[2]
    /\ pc[r] = "done" /\ args[r].callback /\ Len(callbackCalls[r][1].seen) = 2

\* C5: saveFrames saves only the first 15 frames: no session hands more than
\* 15 frames to its continuation.
C5_AtMost15Frames == \A s \in Sessions : Len(Handed(s)) <= 15

\* C6: while a session runs its counter equals the number of buffered frames,
\* and the frame at position k (from 0) of the buffer, and of what is handed
\* over, is named fName + k: the indices start at 0 and rise by one.
C6_ContiguousIndices ==
  \A s \in Sessions : Started(s) =>
    /\ pc[s] = "running" => count[s] = Len(Buffer(s)) /\ Buffer(s) = captured[s]
    /\ count[s] = Len(captured[s])
    /\ \A k \in 1..Len(captured[s]) :
          captured[s][k].filename = args[s].fName \o ToString(k - 1)
    /\ \A k \in 1..Len(Handed(s)) :
          Handed(s)[k].filename = args[s].fName \o ToString(k - 1)

\* C6 witness: a running session has buffered two frames, out0 then out1.
C6_Witness ==
  \E s \in Sessions :
    /\ pc[s] = "running" /\ count[s] = 2
    /\ Buffer(s)[1].filename = "out0" /\ Buffer(s)[2].filename = "out1"

\* How many times the timeout callback of session s has run: each run creates
\* one array (frames = []) after the one the call created.
TimeoutRuns(s) == IF Started(s) THEN Len(arrays[s]) - 1 ELSE 0

\* C11: every session terminates: with timers that run the pending timeout, a
\* running session ends, its interval is then cancelled and no timer is left,
\* and its continuation has been invoked exactly once: not before the end,
\* once at the end (one callback call, or each frame downloaded once), and
\* never again.
C11_SessionTerminates ==
  /\ \A s \in Sessions : (pc[s] = "running") ~> (pc[s] = "done")
  /\ [](\A s \in Sessions :
         /\ pc[s] # "done" => TimeoutRuns(s) = 0 /\ callbackCalls[s] = <<>>
                                /\ DownloadedBy(s) = <<>>
         /\ pc[s] = "running" => cutoff[s]
         /\ pc[s] = "done" =>
              /\ ~frameFactory[s] /\ ~cutoff[s]
              /\ TimeoutRuns(s) = 1
              /\ args[s].callback => Len(callbackCalls[s]) = 1
              /\ ~args[s].callback => DownloadedBy(s) = captured[s])
  /\ [][\A s \in Sessions : pc[s] = "done" =>
          /\ pc'[s] = "done"
          /\ callbackCalls'[s] = callbackCalls[s]
          /\ arrays'[s] = arrays[s]]_vars

\* C11 witness: both sessions have ended, one through its callback and one
\* through the downloads, each after a tick.
C11_Witness ==
  /\ \A s \in Sessions : pc[s] = "done" /\ TimeoutRuns(s) = 1 /\ ticks[s] >= 1
  /\ \E s \in Sessions : args[s].callback /\ Len(callbackCalls[s]) = 1
  /\ \E s \in Sessions : ~args[s].callback /\ Len(DownloadedBy(s)) >= 1

\* The frames are named fName + 0, fName + 1, ... in order.
NumberedFromZero(s, fs) ==
  \A k \in 1..Len(fs) : fs[k].filename = args[s].fName \o ToString(k - 1)

\* C13: a tick on which makeFrame fails does not abort the session: it appends
\* nothing and leaves the counter, the interval stays registered so later
\* ticks keep sampling until the cutoff, and what is handed over is numbered
\* 0..n-1 with no gap for the failed tick.
C13_FailedTickSkipped ==
  /\ [](\A s \in Sessions : Started(s) =>
         /\ count[s] = ticks[s] - Len(failures[s])
         /\ Len(captured[s]) = count[s]
         /\ NumberedFromZero(s, captured[s])
         /\ pc[s] = "running" => frameFactory[s] /\ cutoff[s] /\ Buffer(s) = captured[s]
         /\ pc[s] = "done" => Handed(s) = captured[s] /\ NumberedFromZero(s, Handed(s)))
  /\ [][\A s \in Sessions : failures'[s] # failures[s] =>
          /\ count'[s] = count[s]
          /\ arrays'[s] = arrays[s]
          /\ frames'[s] = frames[s]
          /\ frameFactory'[s] /\ cutoff'[s] = cutoff[s]
          /\ pc'[s] = "running"]_vars

\* C13 witness: the first tick of a session failed, the second captured, and
\* the session handed over that one frame, named out0.
C13_Witness ==
  \E s \in Sessions :
    /\ pc[s] = "done" /\ failures[s] = <<1>> /\ ticks[s] = 2
    /\ Len(Handed(s)) = 1 /\ Handed(s)[1].filename = "out0"

\* What belongs to session s.
Own(s) == <<pc[s], args[s], duration[s], fps[s], count[s], arrays[s], frames[s],
            frameFactory[s], cutoff[s], ticks[s], captured[s], failures[s],
            callbackCalls[s], DownloadedBy(s)>>

\* C14: sessions share no state: in every interleaving of two sessions' ticks
\* and cutoffs a step of one leaves everything of the other as it was (its
\* buffer, its counter, its interval), each continuation receives exactly the
\* frames of its own session's ticks, numbered from 0 by its own counter, and a
\* session starts with an empty buffer and counter 0 whatever the other did.
C14_SessionsShareNoState ==
  /\ [](\A s \in Sessions :
         /\ ~Started(s) => count[s] = 0 /\ arrays[s] = <<>> /\ captured[s] = <<>>
         /\ Started(s) => count[s] = Len(captured[s]) /\ NumberedFromZero(s, captured[s])
         /\ pc[s] = "running" => Buffer(s) = captured[s]
         /\ (pc[s] = "running" /\ ticks[s] = 0) => count[s] = 0 /\ Buffer(s) = <<>>
         /\ pc[s] = "done" => Handed(s) = captured[s])
  /\ [][\A s \in Sessions, r \in Sessions :
          (r # s /\ Own(s)' # Own(s)) => Own(r)' = Own(r)]_vars

\* C14 witness: one session has ended and handed over its frames while the
\* other, started before that and holding different frames, still has its
\* interval registered.
C14_Witness ==
  \E s \in Sessions, r \in Sessions :
    /\ r # s
    /\ pc[s] = "done" /\ Len(Handed(s)) = 2
    /\ pc[r] = "running" /\ frameFactory[r] /\ Len(Buffer(r)) = 1
    /\ Buffer(r)[1] # Handed(s)[1]

\* The number argument v is below 0.
Negative(v) == v[1] = "number" /\ v[2] < 0

\* C15: the defaults are substituted on any falsy argument, before clamping:
\* a duration omitted or 0 is 3 seconds and an fps omitted or 0 is 15, while a
\* negative value is clamped up to 0; so a duration of 0 still captures for 3
\* seconds and an fps of 0 captures at 15 fps, where a negative duration or a
\* negative fps captures nothing.
C15_DefaultsOnFalsy ==
  \A s \in Sessions : Started(s) =>
    /\ Falsy(args[s]._duration) => duration[s] = 3000
    /\ Falsy(args[s]._fps) => fps[s] = 15
    /\ Negative(args[s]._duration) => duration[s] = 0
    /\ Negative(args[s]._fps) => fps[s] = 0
    /\ pc[s] = "done" =>
         /\ (Falsy(args[s]._duration) /\ fps[s] > 0) => Len(Handed(s)) = 3 * fps[s]
         /\ Falsy(args[s]._fps) => Len(Handed(s)) = (15 * duration[s]) \div 1000
         /\ Negative(args[s]._duration) => Len(Handed(s)) = 0
         /\ Negative(args[s]._fps) => Len(Handed(s)) = 0

\* C15 witness: a session asked for a duration of 0 and an fps of 0 has ended
\* with the 45 frames of 3 seconds at 15 fps.
C15_Witness ==
  \E s \in Sessions :
    /\ pc[s] = "done" /\ args[s]._duration = Num(0) /\ args[s]._fps = Num(0)
    /\ Len(Handed(s)) = 45

\* C16: the array handed to the callback is not altered by the clean-up:
\* after it the array the callback received still holds what the callback
\* saw, every captured frame in order, and `frames` is another, empty array.
C16_HandedArrayKept ==
  \A s \in Sessions : (pc[s] = "done" /\ args[s].callback) =>
    LET call == callbackCalls[s][1]
    IN  /\ arrays[s][call.array] = call.seen
        /\ arrays[s][call.array] = captured[s]
        /\ frames[s] # call.array
        /\ Buffer(s) = <<>>

\* C16 witness: a session has ended whose callback received two frames.
C16_Witness ==
  \E s \in Sessions :
    /\ pc[s] = "done" /\ args[s].callback
    /\ Len(arrays[s][callbackCalls[s][1].array]) = 2 /\ frames[s] = 2

(***************************************************************************)
(* Properties of encodeAndDownloadGif.                                     *)
(***************************************************************************)
\* The downloadFile calls made by encodeAndDownloadGif.
GifDownloads == SelectSeq(downloads, LAMBDA d : d.by = <<"encodeAndDownloadGif", 0>>)

\* What the k-th writeFrame call must carry for input frame f.
WriteOf(f) ==
  [index   |-> [indexOf |-> f.image.data,
                palette |-> [paletteOf |-> f.image.data, maxColors |-> 256,
                             format |-> "rgba4444"],
                format |-> "rgba4444"],
   palette |-> [paletteOf |-> f.image.data, maxColors |-> 256, format |-> "rgba4444"],
   delay   |-> f.delay]

\* The pixels, palette and delay a writeFrame call carried.
Carried(w) == [index |-> w.index, palette |-> w.palette, delay |-> w.delay]

\* C7: the frames are written in strict input order: the k-th writeFrame call
\* carries the indexed pixels and palette derived from input frame k and its
\* delay dk, and a call that completes has made exactly N writeFrame calls.
C7_WrittenInInputOrder ==
  /\ Len(gif.written) <= Len(gifFrames)
  /\ \A k \in 1..Len(gif.written) : Carried(gif.written[k]) = WriteOf(gifFrames[k])
  /\ gifPc = "done" => Len(gif.written) = Len(gifFrames)

\* C7 witness: a call has completed on three frames whose delays 30, 10, 20 are
\* distinct and whose pixels differ.
C7_Witness ==
  /\ gifPc = "done" /\ Len(gifFrames) = 3 /\ Len(gif.written) = 3
  /\ gifFrames[1].delay = 30 /\ gifFrames[2].delay = 10 /\ gifFrames[3].delay = 20
  /\ gif.written[1].delay = 30 /\ gif.written[2].delay = 10 /\ gif.written[3].delay = 20
  /\ gifFrames[1].image.data # gifFrames[3].image.data

\* C8: encoding zero frames fails fast: with an empty frame list the encoder
\* is never finished into a stream and downloadFile is never called.
C8_EmptyInputFailsFast ==
  (gifPc # "idle" /\ Len(gifFrames) = 0) =>
    /\ gif.state # "finished"
    /\ GifDownloads = <<>>
    /\ gifPc # "done"

\* Some frame's width or height differs from another frame's.
DimensionMismatch(fs) ==
  \E a \in 1..Len(fs), b \in 1..Len(fs) :
    fs[a].image.width # fs[b].image.width \/ fs[a].image.height # fs[b].image.height

\* C9: a sequence in which some frame's width or height differs from the
\* others' is not encoded: the call fails (with DimensionMismatchError) instead
\* of completing and delivers nothing; and every frame is written with its own
\* dimensions.
C9_DimensionsChecked ==
  /\ (gifPc \in {"done", "threw"} /\ DimensionMismatch(gifFrames)) =>
        /\ gifPc = "threw"
        /\ GifDownloads = <<>>
  /\ \A k \in 1..Len(gif.written) :
        /\ gif.written[k].width = gifFrames[k].image.width
        /\ gif.written[k].height = gifFrames[k].image.height

\* The number of entries of log that are the call named name.
CountCalls(log, name) == Len(SelectSeq(log, LAMBDA c : c = name))

\* C10: downloadFile never receives a partial stream: when quantize,
\* applyPalette or writeFrame fails on frame k the error leaves the call, no
\* later frame is processed, the encoder is not finished and downloadFile is not
\* called; downloadFile is called only after all N frames were written and
\* finish() completed, with the stream of all N frames.
C10_NoPartialStream ==
  /\ gifPc = "threw" =>
        /\ gifError # ""
        /\ GifDownloads = <<>>
        /\ gif.state = "open"
        /\ Len(gif.written) = i
        /\ CountCalls(gifLog, "quantize") = i + 1
        /\ CountCalls(gifLog, "finish") = 0
  /\ gifError # "" => gifPc = "threw"
  /\ GifDownloads # <<>> =>
        /\ gifPc = "done"
        /\ Len(GifDownloads) = 1
        /\ gif.state = "finished"
        /\ Len(gif.written) = Len(gifFrames)
        /\ GifDownloads[1].data.parts[1].frames = gif.written
        /\ GifDownloads[1].data.parts[1].trailer
        /\ CountCalls(gifLog, "writeFrame") = Len(gifFrames)

\* C10 witness: writeFrame failed on the second of three frames, after the first
\* frame had been written.
C10_Witness ==
  /\ gifPc = "threw" /\ gifError = "writeFrame"
  /\ Len(gifFrames) = 3 /\ i = 1 /\ Len(gif.written) = 1

\* The calls of a call that completes on n frames, in order.
LifeCycle(n) ==
  <<"GIFEncoder">>
    \o [k \in 1..(3 * n) |-> CASE k % 3 = 1 -> "quantize"
                               [] k % 3 = 2 -> "applyPalette"
                               [] OTHER -> "writeFrame"]
    \o <<"finish", "bytesView", "downloadFile">>

\* C12: each call drives a fresh encoder through Open -> Writing -> Finished:
\* the encoder is created, then come the writeFrame calls, and a call that
\* completes then calls finish() exactly once, reads bytesView() and calls
\* downloadFile exactly once with extension 'gif'; nothing is written to, and
\* nothing finishes, an encoder after its finish().
C12_EncoderLifeCycle ==
  /\ gifPc = "idle" => gif.state = "none" /\ gifLog = <<>>
  /\ gifPc \in {"loop", "threw"} =>
        /\ gif.state = "open"
        /\ CountCalls(gifLog, "writeFrame") \in {i, i + 1}
        /\ SubSeq(gifLog, 1, 1 + 3 * i) = SubSeq(LifeCycle(i), 1, 1 + 3 * i)
        /\ CountCalls(gifLog, "finish") = 0
  /\ gifPc = "done" =>
        /\ gif.state = "finished"
        /\ gifLog = LifeCycle(Len(gifFrames))
        /\ Len(gif.written) = Len(gifFrames)
        /\ Len(GifDownloads) = 1
        /\ GifDownloads[1].ext = "gif"
        /\ GifDownloads[1].data.parts[1].trailer
  /\ CountCalls(gifLog, "finish") <= 1
  /\ \A a \in 1..Len(gifLog), b \in 1..Len(gifLog) :
        (a < b /\ gifLog[a] = "finish") => gifLog[b] \notin {"writeFrame", "finish", "GIFEncoder"}

\* C12 witness: a call on two frames has completed.
C12_Witness ==
  /\ gifPc = "done" /\ Len(gifFrames) = 2
  /\ gifLog = <<"GIFEncoder", "quantize", "applyPalette", "writeFrame",
                "quantize", "applyPalette", "writeFrame",
                "finish", "bytesView", "downloadFile">>

====
